---- MODULE Spec2Model ----
(***************************************************************************)
(* A model of the set-associative cache simulator of riscv/cachesim.cc and *)
(* riscv/cachesim_addr.cc: the address codec (cache_sim_addr_t), the       *)
(* construction of an engine (cache_sim_t::cache_sim_t, init), and the     *)
(* run-time operations access and clean_invalidate over a chain of levels. *)
(***************************************************************************)
EXTENDS Integers, Sequences, FiniteSets, TLC

VARIABLES
  cx,            \* codec: the address under conversion and the results so far
  built,         \* construction: the engine a constructor call left behind
  cache,         \* engine: cache[l], the cache_sim_t object of level l
  pc,            \* engine: "idle", "walk" (inside clean_invalidate), "crashed"
  walk,          \* engine: the clean_invalidate call in progress
  events,        \* history: the calls made by the latest top-level operation
  hist           \* history: what the claims need to remember of earlier calls

vars == <<cx, built, cache, pc, walk, events, hist>>

NULL == 0

(***************************************************************************)
(* Machine words.  A raw address is a uint64_t; it is represented by the   *)
(* set of the positions of its 1 bits, so that the 64-bit arithmetic of    *)
(* the code is computed exactly; so is a tag.  Values the model keeps      *)
(* below 2^31 (idx, sets, linesz, bytes, way numbers) are naturals.        *)
(***************************************************************************)
AddrBits == 64

StrippedBits == 32

Bits(n) == {b \in 0..30 : (n \div (2^b)) % 2 = 1}

RECURSIVE Val(_)
Val(S) == IF S = {} THEN 0
          ELSE LET b == CHOOSE x \in S : TRUE IN (2^b) + Val(S \ {b})

Trunc(S, w) == {b \in S : b < w}

Shr(S, k) == {b - k : b \in {x \in S : x >= k}}

Shl(S, k) == {b + k : b \in S}

Xor(S, T) == (S \ T) \cup (T \ S)

\* the carry into bit b of a sum whose operands are both 1 at the bits G
\* and at least one of them 1 at the bits P
Carry(G, P, b) ==
  \E j \in G : j < b /\ \A k \in (j + 1)..(b - 1) : k \in P

\* S + T modulo 2^w
AddW(S, T, w) ==
  {b \in 0..(w - 1) :
     ((b \in S) # (b \in T)) # Carry(S \cap T, S \cup T, b)}

\* S < T as unsigned numbers
LtBits(S, T) == \E b \in T \ S : \A c \in Xor(S, T) : c <= b

\* (uint32_t)std::log2(n), n >= 1
Log2(n) == CHOOSE k \in 0..29 : (2^k) <= n /\ n < 2^(k+1)

BitAnd(m, n) == Val(Bits(m) \cap Bits(n))

(***************************************************************************)
(* cache_sim_addr_t                                                        *)
(***************************************************************************)
\* cache_sim_addr_t(): the slot a resized tag array starts with
cache_sim_addr_default == [valid |-> FALSE, dirty |-> FALSE, tag |-> {}, idx |-> 0]

\* cache_sim_addr_t(addr, sets, linesz) without the shift by log2(linesz)
cache_sim_addr_t_no_shift(addr, sets, linesz) ==
  LET stripped == Trunc(addr, StrippedBits)
  IN  [valid |-> TRUE, dirty |-> FALSE,
       tag   |-> Shr(stripped, Log2(sets)),
       idx   |-> Val(stripped \cap Bits(sets - 1))]

\* cache_sim_addr_t(addr, sets, linesz)
cache_sim_addr_t(addr, sets, linesz) ==
  LET stripped == Trunc(Shr(addr, Log2(linesz)), StrippedBits)
  IN  [valid |-> TRUE, dirty |-> FALSE,
       tag   |-> Shr(stripped, Log2(sets)),
       idx   |-> Val(stripped \cap Bits(sets - 1))]

\* operator== that also compares the dirty flags
addr_eq_with_dirty(this, other) ==
  (this.valid /\ other.valid) /\ (this.tag = other.tag)
    /\ (this.dirty = other.dirty)

\* operator==
addr_eq(this, other) == (this.valid /\ other.valid) /\ (this.tag = other.tag)

\* operator< that also holds for equal lines (<=)
addr_le(this, other) ==
  (this.valid /\ other.valid) /\
  (LtBits(this.tag, other.tag) \/
   ((this.tag = other.tag) /\ (this.idx <= other.idx)))

\* operator<
addr_lt(this, other) ==
  (this.valid /\ other.valid) /\
  (LtBits(this.tag, other.tag) \/
     ((this.tag = other.tag) /\ (this.idx < other.idx)))

\* next_cacheline(sets)
next_cacheline(this, sets) ==
  [this EXCEPT !.tag = IF this.idx = sets - 1 THEN AddW(@, {0}, AddrBits) ELSE @,
               !.idx = @ + 1]

\* to_uint64(sets, linesz)
to_uint64(this, sets, linesz) ==
  LET addr1 == Shl(this.tag, Log2(sets))
      addr2 == addr1 \cup Bits(this.idx)
  IN  Trunc(Shl(addr2, Log2(linesz)), AddrBits)

(***************************************************************************)
(* Construction: cache_sim_t::cache_sim_t, init, help.  An engine is the   *)
(* record of its fields; status tells how the constructor call ended:      *)
(* "built" (it returned) or "usage_error" (help() printed the usage and    *)
(* called exit(1)).  tags = <<>> is the vector before any resize.          *)
(***************************************************************************)
PolicyTokens == {"lfsr", "lru", "fifo", "lip", "bip"}

policy_is_valid(eviction_policy) ==
  (eviction_policy = "lfsr") \/ (eviction_policy = "lru") \/
  (eviction_policy = "fifo") \/ (eviction_policy = "lip") \/
  (eviction_policy = "bip")

\* the policy pointer that points to nothing
NullPolicy == [kind |-> "NULL"]

\* the policy object, or NULL
create_eviction_policy(e, eviction_policy) ==
  IF eviction_policy = "lfsr" THEN [kind |-> "lfsr", sets |-> e.sets, ways |-> e.ways]
  ELSE IF eviction_policy = "lru" THEN [kind |-> "lru", sets |-> e.sets, ways |-> e.ways]
  ELSE IF eviction_policy = "fifo" THEN [kind |-> "fifo", sets |-> e.sets, ways |-> e.ways]
  ELSE IF eviction_policy = "lip" THEN [kind |-> "lip", sets |-> e.sets, ways |-> e.ways]
  ELSE IF eviction_policy = "bip" THEN [kind |-> "bip", sets |-> e.sets, ways |-> e.ways]
  ELSE NullPolicy

\* the member initialisers of a constructor: nothing allocated yet
members(path, sets, ways, linesz, token) ==
  [status |-> "none", path |-> path, token |-> token,
   sets |-> sets, ways |-> ways, linesz |-> linesz,
   tags |-> <<>>, policy |-> NullPolicy, miss_handler |-> NULL]

\* help(): print the usage, exit(1)
help(e) == [e EXCEPT !.status = "usage_error"]

\* init without the check of linesz
init_no_linesz_check(e, eviction_policy) ==
  IF e.sets = 0 \/ BitAnd(e.sets, e.sets - 1) # 0 THEN help(e)
  ELSE [e EXCEPT
          !.tags = [s \in 0..(e.sets - 1) |->
                      [w \in 0..(e.ways - 1) |-> cache_sim_addr_default]],
          !.miss_handler = NULL,
          !.policy = create_eviction_policy(e, eviction_policy),
          !.status = "built"]

init(e, eviction_policy) ==
  IF e.sets = 0 \/ BitAnd(e.sets, e.sets - 1) # 0 THEN help(e)
  ELSE IF e.linesz < 8 \/ BitAnd(e.linesz, e.linesz - 1) # 0 THEN help(e)
  ELSE [e EXCEPT
          !.tags = [s \in 0..(e.sets - 1) |->
                      [w \in 0..(e.ways - 1) |-> cache_sim_addr_default]],
          !.miss_handler = NULL,
          !.policy = create_eviction_policy(e, eviction_policy),
          !.status = "built"]

\* cache_sim_t(sets, ways, linesz, name, eviction_policy)
cache_sim_t5(sets, ways, linesz, eviction_policy) ==
  init(members("args5", sets, ways, linesz, eviction_policy), eviction_policy)

\* cache_sim_t(sets, ways, linesz, name)
cache_sim_t4(sets, ways, linesz) ==
  init(members("args4", sets, ways, linesz, "lfsr"), "lfsr")

\* cache_sim_t(config, name): config is the sequence of the fields that the
\* ':' separate; a numeric field is the number atoi reads from it
cache_sim_config(config) ==
  IF Len(config) < 2 THEN help(members("config", 0, 0, 0, ""))
  ELSE IF Len(config) < 3 THEN help(members("config", 0, 0, 0, ""))
  ELSE IF Len(config) < 4 THEN help(members("config", 0, 0, 0, ""))
  ELSE IF ~policy_is_valid(config[4])
       THEN help(members("config", config[1], config[2], config[3], config[4]))
  ELSE init(members("config", config[1], config[2], config[3], config[4]),
            config[4])

\* Inputs of the constructors
MaxCtorSets == 4

MaxCtorWays == 2

MaxCtorLinesz == 16

CtorTokens == PolicyTokens \cup {"plru", ""}

Unbuilt == members("none", 0, 0, 0, "")

Construct5 ==
  /\ built.status = "none"
  /\ \E s \in 0..MaxCtorSets, w \in 0..MaxCtorWays, l \in 0..MaxCtorLinesz,
        t \in CtorTokens :
       built' = cache_sim_t5(s, w, l, t)

Construct4 ==
  /\ built.status = "none"
  /\ \E s \in 0..MaxCtorSets, w \in 0..MaxCtorWays, l \in 0..MaxCtorLinesz :
       built' = cache_sim_t4(s, w, l)

ConstructConfig ==
  /\ built.status = "none"
  /\ \E s \in 0..MaxCtorSets, w \in 0..MaxCtorWays, l \in 0..MaxCtorLinesz,
        t \in CtorTokens, n \in 1..4 :
       built' = cache_sim_config(SubSeq(<<s, w, l, t>>, 1, n))

EngineOff ==
  /\ cache = <<>> /\ pc = "off"
  /\ walk = NULL /\ events = <<>> /\ hist = NULL

EngineUnchanged == UNCHANGED <<cache, pc, walk, events, hist>>

CtorInit == built = Unbuilt /\ cx = NULL /\ EngineOff

CtorNext ==
  \/ Construct5 /\ UNCHANGED cx /\ EngineUnchanged
  \/ Construct4 /\ UNCHANGED cx /\ EngineUnchanged
  \/ ConstructConfig /\ UNCHANGED cx /\ EngineUnchanged

CtorSpec == CtorInit /\ [][CtorNext]_vars

IsPow2(n) == \E k \in 0..10 : n = 2^k

\* C6: a constructor call with a policy token other than lfsr, lru, fifo, lip,
\* bip ends in a usage error on every construction path, so that every engine
\* a constructor returns owns an eviction policy.
C6_UnknownPolicyRejected ==
  /\ (built.status # "none" /\ built.token \notin PolicyTokens)
        => built.status = "usage_error"
  /\ built.status = "built" => built.policy # NullPolicy

\* C7: a constructor call with ways = 0 ends in a usage error, so that every
\* engine a constructor returns has at least one slot in every set.
C7_ZeroWaysRejected ==
  /\ (built.status # "none" /\ built.ways = 0) => built.status = "usage_error"
  /\ built.status = "built" =>
        \A s \in DOMAIN built.tags : DOMAIN built.tags[s] # {}

\* C8: a constructor call whose sets is zero or no power of two, or whose
\* linesz is below 8 or no power of two, ends in a usage error with the tag
\* array not allocated and no eviction policy created.
C8_PowerOfTwoInvariant ==
  (built.status # "none" /\
     (~IsPow2(built.sets) \/ built.linesz < 8 \/ ~IsPow2(built.linesz)))
  => /\ built.status = "usage_error"
     /\ DOMAIN built.tags = {}
     /\ built.policy = NullPolicy

C8_Witness ==
  /\ built.status = "usage_error"
  /\ built.path = "args5" /\ built.token = "lru"
  /\ built.sets = 3 /\ built.ways = 2 /\ built.linesz = 8

(***************************************************************************)
(* The address codec on its own: an address is decomposed under a valid    *)
(* geometry, advanced line by line, and recomposed.                        *)
(***************************************************************************)
MaxCodecLine == 4

MaxAdvance == 3

CodecSets == {1, 2, 4}

CodecLinesz == {8, 16, 64}

CodecAddrs ==
  {Bits(8 * k) : k \in 0..MaxCodecLine} \cup {Bits(4), Bits(100)} \cup
  {{30}, {40}, {40, 6}, {63}, {63, 40, 12}}

LineAligned(addr, linesz) == \A b \in addr : b >= Log2(linesz)

CodecOff == cx = NULL

CodecInit ==
  /\ \E a \in CodecAddrs, s \in CodecSets, l \in CodecLinesz :
       cx = [phase |-> "input", addr |-> a, sets |-> s, linesz |-> l,
             dec |-> cache_sim_addr_default, steps |-> 0, rec |-> {}]
  /\ built = Unbuilt /\ EngineOff

Decompose ==
  /\ cx.phase = "input"
  /\ cx' = [cx EXCEPT !.phase = "decomposed",
                      !.dec = cache_sim_addr_t(cx.addr, cx.sets, cx.linesz)]

Advance ==
  /\ cx.phase = "decomposed"
  /\ cx.steps < MaxAdvance
  /\ cx' = [cx EXCEPT !.dec = next_cacheline(cx.dec, cx.sets),
                      !.steps = @ + 1]

Recompose ==
  /\ cx.phase = "decomposed"
  /\ cx' = [cx EXCEPT !.phase = "recomposed",
                      !.rec = to_uint64(cx.dec, cx.sets, cx.linesz)]

CodecNext ==
  \/ Decompose /\ UNCHANGED built /\ EngineUnchanged
  \/ Advance /\ UNCHANGED built /\ EngineUnchanged
  \/ Recompose /\ UNCHANGED built /\ EngineUnchanged

CodecSpec == CodecInit /\ [][CodecNext]_vars

\* C4: for a valid geometry and a line-aligned 64-bit address a, recomposing
\* the decomposition of a gives a back.
C4_RoundTrip ==
  (cx.phase = "recomposed" /\ cx.steps = 0 /\ LineAligned(cx.addr, cx.linesz))
  => cx.rec = cx.addr

\* C12: advancing the decomposition of line L k times gives the
\* decomposition of line L + k: idx counts modulo sets and tag takes the
\* carries, so idx stays a set of the tag array.
C12_AdvanceWraps ==
  (cx.phase = "decomposed" /\ cx.steps > 0) =>
    LET first == cache_sim_addr_t(cx.addr, cx.sets, cx.linesz)
        line  == first.idx + cx.steps
    IN  /\ cx.dec.idx \in 0..(cx.sets - 1)
        /\ cx.dec.idx = line % cx.sets
        /\ cx.dec.tag = AddW(first.tag, Bits(line \div cx.sets), AddrBits)

(***************************************************************************)
(* The engine at run time: a chain of cache levels.  cache[1] receives the *)
(* caller's access and clean_invalidate calls; cache[l].miss_handler is    *)
(* the level that level l forwards to, or NULL.  A slot of a tag array is  *)
(* a cache_sim_addr_t; its fields raw and stored are history, not program  *)
(* state: raw is the base address of the line whose access built the       *)
(* object, stored the base address of the line of the latest store that    *)
(* hit it (NoRaw when there is none).                                      *)
(***************************************************************************)
NoRaw == {-1}

LineBase(raw_addr, linesz) == {b \in raw_addr : b >= Log2(linesz)}

Slot(a) == [valid |-> a.valid, dirty |-> a.dirty, tag |-> a.tag,
            idx |-> a.idx, raw |-> NoRaw, stored |-> NoRaw]

\* the engines of a chain as their constructors return them, each linked to
\* the next (set_miss_handler)
Chain(geometry) ==
  [l \in 1..Len(geometry) |->
     LET e == cache_sim_t5(geometry[l].sets, geometry[l].ways,
                           geometry[l].linesz, "lru")
     IN  [e EXCEPT
            !.tags = [s \in DOMAIN e.tags |->
                        [w \in DOMAIN e.tags[s] |-> Slot(e.tags[s][w])]],
            !.miss_handler = IF l < Len(geometry) THEN l + 1 ELSE NULL]]

\* One call, as the history records it.  lvl is the level that makes the
\* call; the fields a call does not have keep their defaults.
Ev(lvl, ev) == [lvl |-> lvl, ev |-> ev, a |-> {}, n |-> 0, f |-> FALSE,
                g |-> FALSE, set |-> 0, tag |-> {}, way |-> 0,
                slot |-> Slot(cache_sim_addr_default)]

Log(st, e) == [st EXCEPT !.events = Append(@, e)]

\* the calls into the counter sink of level l
perf_counter_access(st, l, store, bytes) ==
  Log(st, [Ev(l, "access") EXCEPT !.f = store, !.n = bytes])

\* an access that does not report its miss
perf_counter_miss_missing(st, l, store) == st

perf_counter_miss(st, l, store) == Log(st, [Ev(l, "miss") EXCEPT !.f = store])

perf_counter_writeback(st, l) == Log(st, Ev(l, "writeback"))

\* check_tag that looks at the first way only
check_tag_first_way(set, addr) ==
  IF addr_eq(set[0], addr) THEN 0 ELSE -1

\* check_tag over the ways of one set: first way equal to addr, or -1
check_tag(set, addr) ==
  LET hits == {w \in DOMAIN set : addr_eq(set[w], addr)}
  IN  IF hits # {} THEN CHOOSE w \in hits : \A v \in hits : w <= v ELSE -1

\* victimize(addr) that tells insert way 0 whatever next returned
victimize_insert_way0(st, l, addr, raw) ==
  LET way    == Head(st.picks[l])
      s1     == Log(st, [Ev(l, "next") EXCEPT !.set = addr.idx, !.way = way])
      victim == s1.cache[l].tags[addr.idx][way]
      s2     == [s1 EXCEPT
                   !.cache[l].tags[addr.idx][way] =
                      [Slot(addr) EXCEPT !.valid = TRUE, !.raw = raw],
                   !.picks[l] = Tail(@),
                   !.victim = victim]
  IN  Log(Log(s2, [Ev(l, "victim") EXCEPT !.set = addr.idx, !.way = way,
                                          !.slot = victim]),
          [Ev(l, "insert") EXCEPT !.set = addr.idx, !.way = 0])

\* victimize(addr) that sets the new tag in place: the slot keeps the dirty
\* flag of the victim
victimize_keep_dirty(st, l, addr, raw) ==
  LET way    == Head(st.picks[l])
      s1     == Log(st, [Ev(l, "next") EXCEPT !.set = addr.idx, !.way = way])
      victim == s1.cache[l].tags[addr.idx][way]
      s2     == [s1 EXCEPT
                   !.cache[l].tags[addr.idx][way] =
                      [Slot(addr) EXCEPT !.valid = TRUE, !.raw = raw,
                                         !.dirty = victim.dirty],
                   !.picks[l] = Tail(@),
                   !.victim = victim]
  IN  Log(Log(s2, [Ev(l, "victim") EXCEPT !.set = addr.idx, !.way = way,
                                          !.slot = victim]),
          [Ev(l, "insert") EXCEPT !.set = addr.idx, !.way = way])

\* victimize(addr): the policy names the way (next), the slot is overwritten
\* with addr marked valid, the policy is told (insert); the old slot is
\* returned in st.victim
victimize(st, l, addr, raw) ==
  LET way    == Head(st.picks[l])
      s1     == Log(st, [Ev(l, "next") EXCEPT !.set = addr.idx, !.way = way])
      victim == s1.cache[l].tags[addr.idx][way]
      s2     == [s1 EXCEPT
                   !.cache[l].tags[addr.idx][way] =
                      [Slot(addr) EXCEPT !.valid = TRUE, !.raw = raw],
                   !.picks[l] = Tail(@),
                   !.victim = victim]
  IN  Log(Log(s2, [Ev(l, "victim") EXCEPT !.set = addr.idx, !.way = way,
                                          !.slot = victim]),
          [Ev(l, "insert") EXCEPT !.set = addr.idx, !.way = way])

\* access(raw_addr, bytes, store) on level l, the calls into the next level
\* included
RECURSIVE access(_, _, _, _, _)
access(st, l, raw_addr, bytes, store) ==
  LET c    == st.cache[l]
      mh   == c.miss_handler
      s0   == perf_counter_access(st, l, store, bytes)
      addr == cache_sim_addr_t(raw_addr, c.sets, c.linesz)
      hit_way_index == check_tag(c.tags[addr.idx], addr)
  IN  IF hit_way_index >= 0
      THEN LET s1 == IF store
                     THEN [s0 EXCEPT
                             !.cache[l].tags[addr.idx][hit_way_index].dirty
                                = TRUE,
                             !.cache[l].tags[addr.idx][hit_way_index].stored
                                = LineBase(raw_addr, c.linesz)]
                     ELSE s0
           IN  Log(s1, [Ev(l, "update") EXCEPT !.set = addr.idx,
                           !.tag = addr.tag, !.way = hit_way_index])
      ELSE LET s1 == perf_counter_miss(s0, l, store)
               s2 == victimize(s1, l, addr, LineBase(raw_addr, c.linesz))
               victim == s2.victim
               wb == victim.valid /\ victim.dirty
               dirty_addr == to_uint64(victim, c.sets, c.linesz)
               s3 == IF wb /\ mh # NULL
                     THEN access(Log(s2, [Ev(l, "call") EXCEPT
                                            !.a = dirty_addr, !.n = c.linesz,
                                            !.f = TRUE]),
                                 mh, dirty_addr, c.linesz, TRUE)
                     ELSE s2
               s4 == IF wb THEN perf_counter_writeback(s3, l) ELSE s3
               fill_addr == to_uint64(addr, c.sets, c.linesz)
               s5 == IF mh # NULL
                     THEN access(Log(s4, [Ev(l, "call") EXCEPT
                                            !.a = fill_addr, !.n = c.linesz,
                                            !.f = FALSE]),
                                 mh, fill_addr, c.linesz, FALSE)
                     ELSE s4
           IN  IF store
               THEN [s5 EXCEPT
                       !.cache[l].tags[addr.idx]
                          [check_tag(s5.cache[l].tags[addr.idx], addr)].dirty
                             = TRUE]
               ELSE s5

\* the body of the loop with "if (clean)": a hit line is cleaned whether it
\* is dirty or not
clean_invalidate_line_always_clean(st, l, cur_addr, clean, inval) ==
  LET set == st.cache[l].tags[cur_addr.idx]
      hit_way_index == check_tag(set, cur_addr)
  IN  IF hit_way_index < 0 THEN st
      ELSE LET s1 == IF clean
                     THEN [Log(Log(st, Ev(l, "writeback")), Ev(l, "clean"))
                             EXCEPT
                               !.cache[l].tags[cur_addr.idx][hit_way_index].dirty
                                  = FALSE,
                               !.cache[l].tags[cur_addr.idx][hit_way_index].stored
                                  = NoRaw]
                     ELSE st
           IN  IF inval
               THEN [s1 EXCEPT
                       !.cache[l].tags[cur_addr.idx][hit_way_index].valid
                          = FALSE,
                       !.cache[l].tags[cur_addr.idx][hit_way_index].raw
                          = NoRaw,
                       !.cache[l].tags[cur_addr.idx][hit_way_index].stored
                          = NoRaw]
               ELSE s1

\* the body of the loop with "else if (inval)": a line that is cleaned is
\* not invalidated
clean_invalidate_line_else_inval(st, l, cur_addr, clean, inval) ==
  LET set == st.cache[l].tags[cur_addr.idx]
      hit_way_index == check_tag(set, cur_addr)
  IN  IF hit_way_index < 0 THEN st
      ELSE IF clean /\ set[hit_way_index].dirty
      THEN [Log(Log(st, Ev(l, "writeback")), Ev(l, "clean")) EXCEPT
              !.cache[l].tags[cur_addr.idx][hit_way_index].dirty = FALSE,
              !.cache[l].tags[cur_addr.idx][hit_way_index].stored = NoRaw]
      ELSE IF inval
      THEN [st EXCEPT
              !.cache[l].tags[cur_addr.idx][hit_way_index].valid = FALSE,
              !.cache[l].tags[cur_addr.idx][hit_way_index].raw = NoRaw,
              !.cache[l].tags[cur_addr.idx][hit_way_index].stored = NoRaw]
      ELSE st

\* the body of the loop of clean_invalidate for the line cur_addr, whose idx
\* is a set of the tag array.  The history of a slot ends with what it
\* records: stored when the line is cleaned, both when it is invalidated.
clean_invalidate_line(st, l, cur_addr, clean, inval) ==
  LET set == st.cache[l].tags[cur_addr.idx]
      hit_way_index == check_tag(set, cur_addr)
  IN  IF hit_way_index >= 0
      THEN LET cleaned == clean /\ set[hit_way_index].dirty
               s1 == IF cleaned
                     THEN [Log(Log(st, [Ev(l, "writeback") EXCEPT
                                          !.set = cur_addr.idx,
                                          !.way = hit_way_index]),
                               [Ev(l, "clean") EXCEPT
                                          !.set = cur_addr.idx,
                                          !.way = hit_way_index])
                             EXCEPT
                               !.cache[l].tags[cur_addr.idx][hit_way_index].dirty
                                  = FALSE,
                               !.cache[l].tags[cur_addr.idx][hit_way_index].stored
                                  = NoRaw]
                     ELSE st
           IN  IF inval
               THEN [s1 EXCEPT
                       !.cache[l].tags[cur_addr.idx][hit_way_index].valid
                          = FALSE,
                       !.cache[l].tags[cur_addr.idx][hit_way_index].raw
                          = NoRaw,
                       !.cache[l].tags[cur_addr.idx][hit_way_index].stored
                          = NoRaw]
               ELSE s1
      ELSE st

\* the first two statements of clean_invalidate on engine c, level l
enter_clean_invalidate(c, l, addr, bytes, clean, inval) ==
  [lvl |-> l, addr |-> addr, bytes |-> bytes, clean |-> clean, inval |-> inval,
   cur_addr |-> cache_sim_addr_t(addr, c.sets, c.linesz),
   end_addr |-> cache_sim_addr_t(AddW(addr, Bits(bytes), AddrBits),
                                 c.sets, c.linesz)]

\* what policy->next may return: any way of the set, for each of the at most
\* 2^(l-1) lookups that one call of the caller makes at level l
PickSeqs(c, l) == [1..(2^(l-1)) -> 0..(c.ways - 1)]

Picks == {p \in [DOMAIN cache ->
                   UNION {PickSeqs(cache[l], l) : l \in DOMAIN cache}] :
            \A l \in DOMAIN cache : p[l] \in PickSeqs(cache[l], l)}

NoWalk == [lvl |-> 0]

NoCall == [op |-> "none", a |-> {}, n |-> 0, f |-> FALSE, g |-> FALSE,
           rep |-> 0]

SameCall(h, a, n, clean, inval) ==
  /\ h.op = "clean_invalidate"
  /\ h.a = a /\ h.n = n /\ h.f = clean /\ h.g = inval

\* the caller's access(a, n, store) on level 1
Access(addrs, sizes) ==
  /\ pc = "idle"
  /\ \E a \in addrs, n \in sizes, store \in BOOLEAN, p \in Picks :
       LET st == access([cache |-> cache, events |-> <<>>, picks |-> p,
                         victim |-> Slot(cache_sim_addr_default)],
                        1, a, n, store)
       IN  /\ cache' = st.cache
           /\ events' = <<[Ev(0, "access") EXCEPT !.a = a, !.n = n,
                                                  !.f = store]>> \o st.events
           /\ hist' = NoCall
  /\ UNCHANGED <<pc, walk, cx, built>>

\* the caller's clean_invalidate(a, n, clean, inval) on level 1: the call and
\* the construction of cur_addr and end_addr.  hist keeps the call that
\* returned last only while the same call is repeated.
CleanInvalidate(ranges) ==
  /\ pc = "idle"
  /\ \E r \in ranges, clean \in BOOLEAN, inval \in BOOLEAN :
       /\ walk' = enter_clean_invalidate(cache[1], 1, r[1], r[2], clean, inval)
       /\ events' = <<[Ev(0, "clean_invalidate") EXCEPT !.a = r[1], !.n = r[2],
                         !.f = clean, !.g = inval]>>
       /\ hist' = IF SameCall(hist, r[1], r[2], clean, inval)
                  THEN hist ELSE NoCall
  /\ pc' = "walk"
  /\ UNCHANGED <<cache, cx, built>>

\* one turn of the loop, on a line whose set exists
WalkLine ==
  /\ pc = "walk"
  /\ addr_lt(walk.cur_addr, walk.end_addr)
  /\ walk.cur_addr.idx \in DOMAIN cache[walk.lvl].tags
  /\ LET st == clean_invalidate_line([cache |-> cache, events |-> events],
                                     walk.lvl, walk.cur_addr,
                                     walk.clean, walk.inval)
     IN  /\ cache' = st.cache
         /\ events' = st.events
  /\ walk' = [walk EXCEPT
                !.cur_addr = next_cacheline(@, cache[walk.lvl].sets)]
  /\ UNCHANGED <<pc, hist, cx, built>>

\* how many slots past the end of tags a walk is followed before it faults
MaxOutOfBounds == 2

\* one turn of the loop with cur_addr.idx >= sets: tags[cur_addr.idx] is
\* read past the end of the vector, which is undefined.  The read faults, or
\* it yields slots that compare unequal and the loop goes on.
WalkOutOfBounds ==
  /\ pc = "walk"
  /\ addr_lt(walk.cur_addr, walk.end_addr)
  /\ walk.cur_addr.idx \notin DOMAIN cache[walk.lvl].tags
  /\ \/ /\ pc' = "crashed"
        /\ UNCHANGED walk
     \/ /\ walk.cur_addr.idx < cache[walk.lvl].sets + MaxOutOfBounds
        /\ walk' = [walk EXCEPT
                      !.cur_addr = next_cacheline(@, cache[walk.lvl].sets)]
        /\ UNCHANGED pc
  /\ UNCHANGED <<cache, events, hist, cx, built>>

\* the loop is over: the call is forwarded with the address of its line
WalkForward_aligned ==
  /\ pc = "walk"
  /\ ~addr_lt(walk.cur_addr, walk.end_addr)
  /\ cache[walk.lvl].miss_handler # NULL
  /\ LET base == LineBase(walk.addr, cache[walk.lvl].linesz)
     IN  /\ events' = Append(events, [Ev(walk.lvl, "call_ci") EXCEPT
                                       !.a = base, !.n = walk.bytes,
                                       !.f = walk.clean, !.g = walk.inval])
         /\ walk' = enter_clean_invalidate(
                       cache[cache[walk.lvl].miss_handler],
                       cache[walk.lvl].miss_handler, base,
                       walk.bytes, walk.clean, walk.inval)
  /\ UNCHANGED <<cache, pc, hist, cx, built>>

\* the loop is over: the call is forwarded to the next level
WalkForward ==
  /\ pc = "walk"
  /\ ~addr_lt(walk.cur_addr, walk.end_addr)
  /\ cache[walk.lvl].miss_handler # NULL
  /\ events' = Append(events, [Ev(walk.lvl, "call_ci") EXCEPT
                                 !.a = walk.addr, !.n = walk.bytes,
                                 !.f = walk.clean, !.g = walk.inval])
  /\ walk' = enter_clean_invalidate(cache[cache[walk.lvl].miss_handler],
                                    cache[walk.lvl].miss_handler, walk.addr,
                                    walk.bytes, walk.clean, walk.inval)
  /\ UNCHANGED <<cache, pc, hist, cx, built>>

\* the loop is over at the last level: every call of the chain returns
WalkReturn ==
  /\ pc = "walk"
  /\ ~addr_lt(walk.cur_addr, walk.end_addr)
  /\ cache[walk.lvl].miss_handler = NULL
  /\ pc' = "idle"
  /\ walk' = NoWalk
  /\ hist' = [op |-> "clean_invalidate", a |-> walk.addr, n |-> walk.bytes,
              f |-> walk.clean, g |-> walk.inval,
              rep |-> IF hist.rep >= 1 THEN 2 ELSE 1]
  /\ UNCHANGED <<cache, events, cx, built>>

(***************************************************************************)
(* The chain that is checked: a direct-mapped first level in front of a    *)
(* one-line last level with longer lines, and the caller's inputs.         *)
(***************************************************************************)
Geometry == << [sets |-> 2, ways |-> 1, linesz |-> 8],
               [sets |-> 1, ways |-> 1, linesz |-> 16] >>

\* 2^35: above the 32 bits that a decomposition keeps of (address >> 3)
HighAddr == {35}

AccessAddrs == {Bits(0), Bits(4), Bits(8), Bits(16), HighAddr}

AccessBytes == {4}

\* the last line of the address space, 2^64 - 8
TopAddr == 3..63

\* the ranges (address, bytes) of clean_invalidate
CIRanges == { <<Bits(0), 0>>, <<Bits(12), 0>>, <<Bits(0), 4>>, <<Bits(0), 8>>, <<Bits(4), 8>>,
              <<Bits(0), 16>>, <<Bits(0), 24>>, <<Bits(0), 32>>,
              <<TopAddr, 16>> }

EngineInit(chain) ==
  /\ cache = chain
  /\ pc = "idle"
  /\ walk = NoWalk
  /\ events = <<>>
  /\ hist = NoCall
  /\ cx = NULL
  /\ built = Unbuilt

Init == EngineInit(Chain(Geometry))

Next ==
  \/ Access(AccessAddrs, AccessBytes)
  \/ CleanInvalidate(CIRanges)
  \/ WalkLine
  \/ WalkOutOfBounds
  \/ WalkForward
  \/ WalkReturn

Spec == Init /\ [][Next]_vars

\* The calls of clean_invalidate alone, on the cold chain.  The program is
\* one thread: a call that can take a step takes it.
WalkNext ==
  \/ CleanInvalidate(CIRanges)
  \/ WalkLine
  \/ WalkOutOfBounds
  \/ WalkForward
  \/ WalkReturn

WalkSpec == Init /\ [][WalkNext]_vars /\ WF_vars(WalkNext)

(***************************************************************************)
(* Properties of clean_invalidate.                                         *)
(***************************************************************************)
LeBits(S, T) == S = T \/ LtBits(S, T)

\* the last byte of the line whose base address is raw
LineLast(raw, linesz) == raw \cup (0..(Log2(linesz) - 1))

\* the line at raw holds a byte of the n > 0 bytes that start at a, in an
\* address space of 2^64 bytes
Overlaps(raw, linesz, a, n) ==
  LET last == AddW(a, Bits(n - 1), AddrBits)
  IN  IF LeBits(a, last)
      THEN LeBits(raw, last) /\ LeBits(a, LineLast(raw, linesz))
      ELSE LeBits(raw, last) \/ LeBits(a, LineLast(raw, linesz))

\* the slots of level l
Slots(l) == UNION {{cache[l].tags[s][w] : w \in DOMAIN cache[l].tags[s]} :
                     s \in DOMAIN cache[l].tags}

\* the caller's latest call was op and it has returned
Returned(op) == pc = "idle" /\ events # <<>> /\ events[1].ev = op

\* C1: when clean_invalidate(a, n, true, invalidate) with n > 0 has returned,
\* no line that overlaps [a, a+n) is valid at any level if invalidate was
\* asked for, and none is dirty if it was not.
C1_RangeProcessed ==
  (Returned("clean_invalidate") /\ events[1].n > 0 /\ events[1].f) =>
    \A l \in DOMAIN cache : \A slot \in Slots(l) :
      (slot.valid /\ Overlaps(slot.raw, cache[l].linesz,
                              events[1].a, events[1].n)) =>
        (~events[1].g /\ ~slot.dirty)

\* C10: every call of clean_invalidate returns to its caller.
C10_Terminates == (pc = "walk") ~> (pc = "idle")

\* C5: while clean_invalidate(a, n, true, true) runs for the second time in
\* a row, no slot of any level changes and no write-back or clean event is
\* emitted.
C5_Idempotent ==
  [][(pc = "walk" /\ hist.rep >= 1 /\ walk.clean /\ walk.inval) =>
       /\ cache' = cache
       /\ \A i \in DOMAIN events' :
            events'[i].ev \notin {"writeback", "clean"}]_vars

\* the second of two equal calls clean_invalidate(a, n, true, true) with
\* n > 0 has returned, and the line at a is not resident at any level
C5_Witness ==
  /\ Returned("clean_invalidate")
  /\ hist.rep = 2 /\ hist.f /\ hist.g /\ hist.n > 0
  /\ \A l \in DOMAIN cache : \A slot \in Slots(l) :
       ~(slot.valid /\ Overlaps(slot.raw, cache[l].linesz, hist.a, 1))
  /\ \E slot \in Slots(1) : ~slot.valid /\ slot.tag = {} /\ slot.idx = 0

(***************************************************************************)
(* Properties of access.  events holds the latest call of the caller: the  *)
(* call itself at level 0, then what every level did, in order.            *)
(***************************************************************************)
\* the invocations of access: where an engine reports to its counter sink
Invocations == {i \in DOMAIN events :
                  events[i].ev = "access" /\ events[i].lvl >= 1}

\* the events of the invocation that starts at i: those of its level up to
\* the next invocation of that level
Seg(i) ==
  LET later == {j \in DOMAIN events : j > i /\ j \in Invocations
                                          /\ events[j].lvl = events[i].lvl}
  IN  {j \in DOMAIN events :
         /\ j >= i
         /\ events[j].lvl = events[i].lvl
         /\ \A k \in later : j < k}

Of(S, ev) == {j \in S : events[j].ev = ev}

\* C2: a store that hits at the first level leaves the slot dirty; when a
\* valid dirty slot is evicted that an access to line a filled and a store
\* to line a has hit, the evicting engine emits exactly one write-back event
\* and, if it has a next level, makes exactly one store call to it, for a
\* whole line at the base of a.
C2_DirtyPropagation ==
  Returned("access") =>
    /\ \A j \in DOMAIN events :
         (events[1].f /\ events[j].ev = "update" /\ events[j].lvl = 1) =>
           cache[1].tags[events[j].set][events[j].way].dirty
    /\ \A i \in Invocations : \A v \in Of(Seg(i), "victim") :
         LET old == events[v].slot
             c   == cache[events[i].lvl]
             wb  == {j \in Of(Seg(i), "call") : events[j].f}
         IN  (old.valid /\ old.dirty /\ old.stored = old.raw) =>
               /\ Cardinality(Of(Seg(i), "writeback")) = 1
               /\ c.miss_handler # NULL =>
                    /\ Cardinality(wb) = 1
                    /\ \A j \in wb : /\ events[j].a = old.stored
                                     /\ events[j].n = c.linesz

\* C3: a load from an address whose line is resident at the first level,
\* put there by an access to that line and neither evicted nor invalidated
\* since, reports no miss, calls no next level and victimizes nothing.
C3_HitAfterInsert ==
  [][(/\ pc = "idle" /\ pc' = "idle"
      /\ ~events'[1].f
      /\ \E slot \in Slots(1) :
            /\ slot.valid
            /\ slot.raw = LineBase(events'[1].a, cache[1].linesz))
       => \A j \in DOMAIN events' :
            events'[j].ev \notin {"miss", "call", "next", "victim", "insert"}
     ]_vars

\* a load from address 4 has hit the line that a load put at address 0
C3_Witness ==
  /\ Returned("access")
  /\ events[1].a = Bits(4) /\ ~events[1].f
  /\ Len(events) = 3
  /\ events[3].ev = "update" /\ events[3].lvl = 1
  /\ LET slot == cache[1].tags[events[3].set][events[3].way]
     IN  slot.valid /\ ~slot.dirty /\ slot.raw = Bits(0)

\* C9: every invocation of access reports one access to its engine's
\* counter sink, first of all; it reports one miss when the lookup misses
\* and none when it hits; and the miss comes before the victim is chosen
\* and before any call to the next level.
C9_CounterProtocol ==
  Returned("access") =>
    /\ \A l \in DOMAIN cache :
         Cardinality({i \in Invocations : events[i].lvl = l}) =
           IF l = 1 THEN 1
           ELSE Cardinality({j \in Of(DOMAIN events, "call") :
                               cache[events[j].lvl].miss_handler = l})
    /\ \A j \in Of(DOMAIN events, "call") :
         /\ j + 1 \in Invocations
         /\ events[j + 1].lvl = cache[events[j].lvl].miss_handler
    /\ \A i \in Invocations :
         LET hit == Of(Seg(i), "update") # {}
         IN  /\ hit # (Of(Seg(i), "next") # {})
             /\ Cardinality(Of(Seg(i), "miss")) = IF hit THEN 0 ELSE 1
             /\ \A m \in Of(Seg(i), "miss") : \A j \in Seg(i) :
                  events[j].ev \in {"next", "victim", "insert", "call"}
                    => m < j

\* an access has missed at the first level and written a dirty victim back:
\* the next level was called twice, and hit once and missed once
C9_Witness ==
  /\ Returned("access")
  /\ Cardinality(Of(DOMAIN events, "call")) = 2
  /\ \E i, j \in Invocations :
       /\ events[i].lvl = 2 /\ events[j].lvl = 2
       /\ Of(Seg(i), "update") # {}
       /\ Of(Seg(j), "miss") # {}

(***************************************************************************)
(* One set-associative engine on its own, from cold, under the loads and   *)
(* stores of its caller.  cx is history: the calls made so far, in order.  *)
(***************************************************************************)
ScenarioGeometry == << [sets |-> 4, ways |-> 2, linesz |-> 16] >>

\* 0x00, 0x10, 0x20: three lines of three sets; 0x40: a second line of set 0
ScenarioAddrs == {Bits(0), Bits(16), Bits(32), Bits(64)}

\* how many calls a history holds
MaxTrace == 4

ScenarioInit ==
  /\ cache = Chain(ScenarioGeometry)
  /\ pc = "idle"
  /\ walk = NoWalk
  /\ events = <<>>
  /\ hist = NoCall
  /\ cx = <<>>
  /\ built = Unbuilt

\* the caller's access(a, n, store), recorded in cx
TracedAccess(addrs, sizes) ==
  /\ pc = "idle"
  /\ Len(cx) < MaxTrace
  /\ \E a \in addrs, n \in sizes, store \in BOOLEAN, p \in Picks :
       LET st == access([cache |-> cache, events |-> <<>>, picks |-> p,
                         victim |-> Slot(cache_sim_addr_default)],
                        1, a, n, store)
       IN  /\ cache' = st.cache
           /\ events' = <<[Ev(0, "access") EXCEPT !.a = a, !.n = n,
                                                  !.f = store]>> \o st.events
           /\ cx' = Append(cx, [a |-> a, store |-> store])
  /\ UNCHANGED <<pc, walk, hist, built>>

ScenarioNext == TracedAccess(ScenarioAddrs, AccessBytes)

ScenarioSpec == ScenarioInit /\ [][ScenarioNext]_vars

\* loads from 0x00, 0x10, 0x20 and 0x00 again
ScenarioReads == << [a |-> Bits(0), store |-> FALSE],
                    [a |-> Bits(16), store |-> FALSE],
                    [a |-> Bits(32), store |-> FALSE],
                    [a |-> Bits(0), store |-> FALSE] >>

\* C11: an access to a line of set s changes no slot of another set; and
\* with 4 sets, 2 ways and 16-byte lines, loads from 0x00, 0x10, 0x20, 0x00
\* on the cold engine miss three times and then hit, without a write-back.
C11_SetIsolation ==
  [][(pc = "idle" /\ pc' = "idle") =>
       /\ \A s \in DOMAIN cache[1].tags :
            s # cache_sim_addr_t(events'[1].a, cache[1].sets,
                                 cache[1].linesz).idx
              => cache'[1].tags[s] = cache[1].tags[s]
       /\ (/\ Len(cx') <= Len(ScenarioReads)
           /\ \A k \in DOMAIN cx' : cx'[k] = ScenarioReads[k]) =>
            /\ \A j \in DOMAIN events' : events'[j].ev # "writeback"
            /\ (\E j \in DOMAIN events' : events'[j].ev = "miss")
                 <=> Len(cx') <= 3
     ]_vars

\* the four loads are done and the fourth has hit
C11_Witness ==
  /\ cx = ScenarioReads
  /\ Returned("access")
  /\ Of(DOMAIN events, "update") # {}
  /\ Cardinality({slot \in Slots(1) : slot.valid}) = 3

(***************************************************************************)
(* More properties of access and clean_invalidate on the chain.            *)
(***************************************************************************)
\* the call events[j] is access(a, linesz of its level, store)
IsCall(j, a, store) ==
  /\ events[j].a = a
  /\ events[j].n = cache[events[j].lvl].linesz
  /\ events[j].f = store

\* C13: an invocation that misses in an engine with a next level calls it
\* first with a store of the victim's line if and only if the victim was
\* valid and dirty, then with a load of the new line, each for a whole
\* line at the line's base address, and makes no other call.
C13_DownstreamCalls ==
  Returned("access") =>
    \A i \in Invocations : \A v \in Of(Seg(i), "victim") :
      LET c     == cache[events[i].lvl]
          old   == events[v].slot
          fresh == LineBase(events[i - 1].a, c.linesz)
          calls == Of(Seg(i), "call")
      IN  c.miss_handler # NULL =>
            IF old.valid /\ old.dirty
            THEN /\ Cardinality(calls) = 2
                 /\ \E j, k \in calls : /\ j < k
                                        /\ IsCall(j, old.raw, TRUE)
                                        /\ IsCall(k, fresh, FALSE)
            ELSE /\ Cardinality(calls) = 1
                 /\ \A k \in calls : IsCall(k, fresh, FALSE)

(***************************************************************************)
(* A chain whose first level has two ways: the way the policy names        *)
(* matters.                                                                *)
(***************************************************************************)
AssocGeometry == << [sets |-> 2, ways |-> 2, linesz |-> 8],
                    [sets |-> 1, ways |-> 1, linesz |-> 16] >>

\* two lines of set 0 and one of set 1
AssocAddrs == {Bits(0), Bits(8), Bits(16)}

AssocRanges == { <<Bits(0), 16>>, <<Bits(0), 32>> }

AssocInit == EngineInit(Chain(AssocGeometry))

AssocNext ==
  \/ Access(AssocAddrs, AccessBytes)
  \/ CleanInvalidate(AssocRanges)
  \/ WalkLine
  \/ WalkOutOfBounds
  \/ WalkForward
  \/ WalkReturn

AssocSpec == AssocInit /\ [][AssocNext]_vars

\* C14: when the caller's access(a, n, store) has missed, the slot at the
\* set of a and the way the policy named holds the line of a, valid, and
\* its dirty flag is store, whatever the victim's was.
C14_InsertedLine ==
  (Returned("access") /\ Of(Seg(2), "next") # {}) =>
    \A j \in Of(Seg(2), "next") :
      LET c    == cache[1]
          addr == cache_sim_addr_t(events[1].a, c.sets, c.linesz)
          slot == c.tags[addr.idx][events[j].way]
      IN  /\ events[j].set = addr.idx
          /\ slot.valid
          /\ slot.tag = addr.tag /\ slot.idx = addr.idx
          /\ slot.raw = LineBase(events[1].a, c.linesz)
          /\ slot.dirty = events[1].f

\* a load has missed and taken way 1 from a valid dirty line: the new line
\* is clean
C14_Witness ==
  /\ Returned("access") /\ ~events[1].f
  /\ \E v \in Of(Seg(2), "victim") :
       /\ events[v].way = 1
       /\ events[v].slot.valid /\ events[v].slot.dirty
       /\ ~cache[1].tags[events[v].set][1].dirty

\* C15: when clean_invalidate(a, n, clean, inval) has returned, every level
\* that has a next level has forwarded the call to it exactly once, with
\* the same four arguments, after everything it did itself and before
\* anything the next level did; also when n = 0 or no line was resident.
C15_Forwarded ==
  Returned("clean_invalidate") =>
    \A l \in DOMAIN cache :
      LET fw == {j \in Of(DOMAIN events, "call_ci") : events[j].lvl = l}
          mh == cache[l].miss_handler
      IN  IF mh = NULL THEN fw = {}
          ELSE /\ Cardinality(fw) = 1
               /\ \A j \in fw :
                    /\ events[j].a = events[1].a /\ events[j].n = events[1].n
                    /\ events[j].f = events[1].f /\ events[j].g = events[1].g
                    /\ \A k \in DOMAIN events :
                         /\ (events[k].lvl = l /\ k # j) => k < j
                         /\ events[k].lvl = mh => k > j

\* clean_invalidate(4, 8, true, true) has returned: the first level
\* cleaned a line and then forwarded the call
C15_Witness ==
  /\ Returned("clean_invalidate")
  /\ events[1].a = Bits(4) /\ events[1].n = 8
  /\ \E j, k \in DOMAIN events :
       /\ j < k
       /\ events[j].ev = "clean" /\ events[j].lvl = 1
       /\ events[k].ev = "call_ci" /\ events[k].a = Bits(4)

\* C16: while clean_invalidate(a, 0, clean, inval) runs, no slot of any
\* level changes and no write-back or clean event is emitted.
C16_EmptyRange ==
  [][(pc = "walk" /\ walk.bytes = 0) =>
       /\ cache' = cache
       /\ \A j \in DOMAIN events' :
            events'[j].ev \notin {"writeback", "clean"}]_vars

\* clean_invalidate(12, 0, true, true) has returned and the line that
\* holds address 12 is still resident and dirty at the first level
C16_Witness ==
  /\ Returned("clean_invalidate")
  /\ events[1].a = Bits(12) /\ events[1].n = 0
  /\ events[1].f /\ events[1].g
  /\ \E slot \in Slots(1) :
       slot.valid /\ slot.dirty /\ slot.raw = Bits(8)

\* C17: a turn of the loop of clean_invalidate on a line of the tag array
\* emits one write-back and one clean event and leaves the line clean if
\* clean is asked for and the line is resident and dirty; otherwise it
\* emits nothing.
C17_CleanEvents ==
  [][(/\ pc = "walk" /\ pc' = "walk"
      /\ walk'.lvl = walk.lvl
      /\ walk.cur_addr.idx \in DOMAIN cache[walk.lvl].tags)
       => LET set   == cache[walk.lvl].tags[walk.cur_addr.idx]
              here  == {w \in DOMAIN set : set[w].valid
                                           /\ set[w].tag = walk.cur_addr.tag}
              added == SubSeq(events', Len(events) + 1, Len(events'))
          IN  IF walk.clean /\ \E w \in here : set[w].dirty
              THEN /\ Len(added) = 2
                   /\ {added[1].ev, added[2].ev} = {"writeback", "clean"}
                   /\ added[1].lvl = walk.lvl /\ added[2].lvl = walk.lvl
                   /\ \A w \in here :
                        ~cache'[walk.lvl].tags[walk.cur_addr.idx][w].dirty
              ELSE added = <<>>
     ]_vars

\* clean_invalidate with clean and without inval has returned: the first
\* level cleaned one line, which is still resident
C17_Witness ==
  /\ Returned("clean_invalidate")
  /\ events[1].f /\ ~events[1].g
  /\ \E j \in Of(DOMAIN events, "clean") :
       /\ events[j].lvl = 1
       /\ LET slot == cache[1].tags[events[j].set][events[j].way]
          IN  slot.valid /\ ~slot.dirty

PolicyCalls == {"next", "insert", "update"}

\* C18: an invocation of access that misses calls next once and then
\* insert once, for the set of its address and the way next returned,
\* before any call to the next level, and never update; one that hits calls
\* update once, for its line and the way that holds it, and neither next
\* nor insert; clean_invalidate calls none of the three.
C18_PolicyProtocol ==
  /\ (events # <<>> /\ events[1].ev = "clean_invalidate") =>
       \A j \in DOMAIN events : events[j].ev \notin PolicyCalls
  /\ Returned("access") =>
       \A i \in Invocations :
         LET c    == cache[events[i].lvl]
             addr == cache_sim_addr_t(events[i - 1].a, c.sets, c.linesz)
             nx   == Of(Seg(i), "next")
             ins  == Of(Seg(i), "insert")
             upd  == Of(Seg(i), "update")
         IN  IF Of(Seg(i), "miss") # {}
             THEN /\ Cardinality(nx) = 1 /\ Cardinality(ins) = 1 /\ upd = {}
                  /\ \A n \in nx, m \in ins :
                       /\ n < m
                       /\ events[n].set = addr.idx /\ events[m].set = addr.idx
                       /\ events[n].way \in 0..(c.ways - 1)
                       /\ events[m].way = events[n].way
                       /\ \A k \in Of(Seg(i), "call") : m < k
             ELSE /\ Cardinality(upd) = 1 /\ nx = {} /\ ins = {}
                  /\ \A u \in upd :
                       /\ events[u].set = addr.idx
                       /\ events[u].tag = addr.tag
                       /\ events[u].way \in 0..(c.ways - 1)

\* a miss of the first level has taken way 1 and called the next level
C18_Witness ==
  /\ Returned("access")
  /\ \E m \in Of(Seg(2), "insert") : events[m].way = 1
  /\ Of(Seg(2), "call") # {}

\* the fields of a slot that the program has
Fields(slot) == [valid |-> slot.valid, dirty |-> slot.dirty,
                 tag |-> slot.tag, idx |-> slot.idx]

\* C19: an access whose line is resident at the first level calls no next
\* level and reports no miss and no write-back; it changes no slot of any
\* level, except that a store sets the dirty flag of the slot that holds
\* the line.
C19_HitFrame ==
  [][(pc = "idle" /\ pc' = "idle") =>
       LET c    == cache[1]
           addr == cache_sim_addr_t(events'[1].a, c.sets, c.linesz)
           here == {w \in DOMAIN c.tags[addr.idx] :
                      /\ c.tags[addr.idx][w].valid
                      /\ c.tags[addr.idx][w].tag = addr.tag}
       IN  here # {} =>
             /\ \A j \in DOMAIN events' :
                  events'[j].ev \notin {"miss", "call", "writeback"}
             /\ \A l \in DOMAIN cache : \A s \in DOMAIN cache[l].tags :
                  \A w \in DOMAIN cache[l].tags[s] :
                    Fields(cache'[l].tags[s][w]) =
                      IF l = 1 /\ s = addr.idx /\ w \in here /\ events'[1].f
                      THEN [Fields(cache[l].tags[s][w]) EXCEPT !.dirty = TRUE]
                      ELSE Fields(cache[l].tags[s][w])
     ]_vars

\* a store has hit a line and made it dirty
C19_Witness ==
  /\ Returned("access") /\ events[1].f
  /\ Len(events) = 3
  /\ events[3].ev = "update" /\ events[3].lvl = 1
  /\ LET slot == cache[1].tags[events[3].set][events[3].way]
     IN  slot.valid /\ slot.dirty
         /\ slot.stored = LineBase(events[1].a, cache[1].linesz)

\* C20: in every set of every engine no two valid slots have the same tag,
\* and a valid slot of set s has idx s, so that the address recomposed
\* from it decomposes to set s again.
C20_OneWayPerLine ==
  \A l \in DOMAIN cache : \A s \in DOMAIN cache[l].tags :
    LET c   == cache[l]
        set == c.tags[s]
    IN  \A w \in DOMAIN set :
          set[w].valid =>
            /\ set[w].idx = s
            /\ cache_sim_addr_t(to_uint64(set[w], c.sets, c.linesz),
                                c.sets, c.linesz).idx = s
            /\ \A v \in DOMAIN set :
                 (v # w /\ set[v].valid) => set[v].tag # set[w].tag

\* both ways of set 0 of the first level hold a line, after a call of
\* clean_invalidate
C20_Witness ==
  /\ Returned("clean_invalidate")
  /\ \A w \in DOMAIN cache[1].tags[0] : cache[1].tags[0][w].valid
  /\ Cardinality(DOMAIN cache[1].tags[0]) = 2

====
